---- MODULE Spec2Model ----
(***************************************************************************)
(* A model of the C++ compile-health analyzer:                             *)
(*   scripts/execute-jobs.py   the job cache / orchestrator                *)
(*   scripts/analyze-file.py   the measurement engine and timing sampler   *)
(*                                                                         *)
(* Three specifications share the variables:                               *)
(*   Spec         one or two consecutive runs of execute-jobs.py           *)
(*   SpecSampler  one call of measure_time                                 *)
(*   SpecEngine   one run of analyze-file.py                               *)
(* In each of them the variables of the other parts keep their idle value. *)
(***************************************************************************)
EXTENDS Integers, Sequences, FiniteSets, TLC

\* ---- execute-jobs.py
VARIABLES
    jobs_file,      \* the job list on disk (args.file), never written
    cache_file,     \* the cache file on disk (args.cache)
    result_file,    \* the output dataset on disk (args.result)
    jobs,           \* the in-memory job list, enriched in place
    job_cache,      \* the in-memory cache: CacheKey -> MetricsRecord
    found_cached,   \* the reuse counter
    idx,            \* zero-based position of the job being processed
    res,            \* the MetricsRecord of the job being processed
    pc,             \* position of the orchestrator in its script
    invoked,        \* history: positions of the jobs the engine was run for
    hits,           \* history: positions of the jobs served from the cache
    init_file,      \* history: cache_file as this run found it
    run,            \* history: 1 for the first run, 2 for the restart
    prev            \* history: how the previous run ended

orchVars == <<jobs_file, cache_file, result_file, jobs, job_cache, found_cached,
              idx, res, pc, invoked, hits, init_file, run, prev>>

\* ---- analyze-file.py, measure_time
VARIABLES
    sargs,          \* the invocation being timed
    ts,             \* the list of samples
    spc,            \* position in measure_time: idle, loop or returned
    sample_ret,     \* the value measure_time returned
    calls,          \* history: subprocess.call executions of this call
    output_main,    \* what the shared output file main.o holds
    nonzero,        \* history: some external invocation exited non-zero
    observed        \* history: how often each duration was measured

samplerVars == <<sargs, ts, spc, sample_ret, calls, output_main, nonzero,
                 observed>>

\* ---- analyze-file.py, the script around measure_time
VARIABLES
    einput,         \* what the command line and the file system look like
    epc,            \* position of the analyzer in its script
    tus_written,    \* main.cc and baseline.cc have been written
    pp_out,         \* the lines the preprocessor wrote for main.cc
    nm_out,         \* the lines nm printed for main.o
    result,         \* the result dictionary
    timed,          \* how many of the four timings are stored
    error,          \* the error the script died of
    stdout,         \* what the script printed for its caller
    ext_calls       \* history: the checked external invocations, in order

engineVars == <<einput, epc, tus_written, pp_out, nm_out, result, timed, error, stdout,
                ext_calls>>

vars == <<orchVars, samplerVars, engineVars>>

(***************************************************************************)
(* Bounds and input sets                                                   *)
(***************************************************************************)
MaxJobs == 3

Files == {"a.h"}
Compilers == {"/cc"}
\* Flag lists: two that are permutations of each other, and two more that are
\* permutations of each other and whose flags contain the ':' character.
ArgLists == { <<"-g", "-O">>, <<"-O", "-g">>,
              <<"-g", "-g:-g">>, <<"-g:-g", "-g">> }
JobUniverse == [file : Files, compiler : Compilers, args : ArgLists]

\* A MetricsRecord is what one run of analyze-file.py prints; the orchestrator
\* never looks inside it, so two distinguishable values stand for all of them.
MetricsRecords == {"m1", "m2"}
NoRes == "{}"

(***************************************************************************)
(* Pure helpers                                                            *)
(***************************************************************************)
RECURSIVE Join(_, _)
\* str.join: the parts with the separator between neighbours
Join(sep, parts) ==
    IF Len(parts) = 0 THEN ""
    ELSE IF Len(parts) = 1 THEN parts[1]
    ELSE parts[1] \o sep \o Join(sep, Tail(parts))

\* execute-jobs.py lines 44-48: id = ":".join([file, compiler] + args)
CacheKey(j) == Join(":", <<j.file, j.compiler>> \o j.args)

\* the measurement inputs of a job
Triple(j) == <<j.file, j.compiler, j.args>>

EmptyCache == <<>>

\* mutant of CacheInsert: the new record is never stored
CacheInsert_Dropped(cache, id, r) == cache

\* mutant of CacheInsert: the cache is replaced by the new entry
CacheInsert_Replace(cache, id, r) == (id :> r)

\* job_cache[id] = res   (only reached when id is not in job_cache)
CacheInsert(cache, id, r) == (id :> r) @@ cache

\* the three shapes the cache file can have on disk
Absent == [kind |-> "absent", content |-> EmptyCache]
Truncated == [kind |-> "truncated", content |-> EmptyCache]
JsonFile(cache) == [kind |-> "json", content |-> cache]

\* mutant of Enrich: positions are counted from one
Enrich_OneBasedId(j, i, r) ==
    [file |-> j.file, compiler |-> j.compiler, args |-> j.args,
     id |-> i + 1, argstr |-> Join(" ", j.args), metrics |-> r]

\* lines 67-70: j["id"] = idx; j["argstr"] = " ".join(args); j[k] = res[k]
Enrich(j, i, r) ==
    [file |-> j.file, compiler |-> j.compiler, args |-> j.args,
     id |-> i, argstr |-> Join(" ", j.args), metrics |-> r]

JobLists == UNION { [1..n -> JobUniverse] : n \in 0..MaxJobs }
KeyUniverse == { CacheKey(j) : j \in JobUniverse }
\* what a cache file left by earlier runs may hold: nothing, or one entry
InitialCaches == {EmptyCache} \cup
    { CacheInsert(EmptyCache, k, r) : k \in KeyUniverse, r \in MetricsRecords }
InitialFiles == {Absent, Truncated} \cup { JsonFile(c) : c \in InitialCaches }

NoPrev == [outcome |-> "none", misses |-> 0, reused |-> 0,
           init_file |-> Absent, cache_file |-> Absent, result_file |-> <<>>]

Terminal == {"done", "failed", "crashed"}

\* measure_time is not running
SamplerIdle ==
    /\ sargs = "none"
    /\ ts = <<>>
    /\ spc = "idle"
    /\ sample_ret = 0
    /\ calls = 0
    /\ output_main = "none"
    /\ nonzero = FALSE
    /\ observed = <<>>

\* analyze-file.py is not running
EngineIdle ==
    /\ einput = <<>>
    /\ epc = "idle"
    /\ tus_written = FALSE
    /\ pp_out = <<>>
    /\ nm_out = <<>>
    /\ result = <<>>
    /\ timed = 0
    /\ error = "none"
    /\ stdout = <<>>
    /\ ext_calls = <<>>

\* the orchestrator is not running
OrchIdle ==
    /\ jobs_file = <<>>
    /\ cache_file = Absent
    /\ result_file = <<>>
    /\ jobs = <<>>
    /\ job_cache = EmptyCache
    /\ found_cached = 0
    /\ idx = 0
    /\ res = NoRes
    /\ pc = "idle"
    /\ invoked = <<>>
    /\ hits = <<>>
    /\ init_file = Absent
    /\ run = 1
    /\ prev = NoPrev

(***************************************************************************)
(* execute-jobs.py                                                         *)
(***************************************************************************)
Init ==
    /\ jobs_file \in JobLists
    /\ cache_file \in InitialFiles
    /\ result_file = <<>>
    /\ jobs = <<>>
    /\ job_cache = EmptyCache
    /\ found_cached = 0
    /\ idx = 0
    /\ res = NoRes
    /\ pc = "load"
    /\ invoked = <<>>
    /\ hits = <<>>
    /\ init_file = cache_file
    /\ run = 1
    /\ prev = NoPrev
    /\ SamplerIdle
    /\ EngineIdle

\* mutant of LoadCache: the cache file is never read
LoadCache_IgnoresFile ==
    /\ pc = "load"
    /\ jobs' = jobs_file
    /\ job_cache' = EmptyCache
    /\ pc' = "loop"
    /\ UNCHANGED <<jobs_file, cache_file, result_file, found_cached, idx, res,
                   invoked, init_file, run, prev>>
    /\ UNCHANGED hits

\* lines 26-41: read the jobs, read the cache if the file exists
LoadCache ==
    /\ pc = "load"
    /\ jobs' = jobs_file
    /\ CASE cache_file.kind = "absent" ->
              /\ job_cache' = EmptyCache
              /\ pc' = "loop"
         [] cache_file.kind = "json" ->
              /\ job_cache' = cache_file.content
              /\ pc' = "loop"
         [] OTHER ->  \* json.load raises on a file that is not JSON
              /\ job_cache' = job_cache
              /\ pc' = "failed"
    /\ UNCHANGED <<jobs_file, cache_file, result_file, found_cached, idx, res,
                   invoked, init_file, run, prev>>
    /\ UNCHANGED hits

\* mutant of LookupHit: the reuse counter is not incremented
LookupHit_NoCount ==
    /\ pc = "loop"
    /\ idx < Len(jobs)
    /\ CacheKey(jobs[idx + 1]) \in DOMAIN job_cache
    /\ res' = job_cache[CacheKey(jobs[idx + 1])]
    /\ pc' = "merge"
    /\ UNCHANGED <<jobs_file, cache_file, result_file, jobs, job_cache, idx,
                   found_cached, invoked, init_file, run, prev>>
    /\ hits' = Append(hits, idx)

\* lines 43-54: the key is in the cache
LookupHit ==
    /\ pc = "loop"
    /\ idx < Len(jobs)
    /\ CacheKey(jobs[idx + 1]) \in DOMAIN job_cache
    /\ res' = job_cache[CacheKey(jobs[idx + 1])]
    /\ found_cached' = found_cached + 1
    /\ pc' = "merge"
    /\ UNCHANGED <<jobs_file, cache_file, result_file, jobs, job_cache, idx,
                   invoked, init_file, run, prev>>
    /\ hits' = Append(hits, idx)

\* lines 43-58: the key is not in the cache
LookupMiss ==
    /\ pc = "loop"
    /\ idx < Len(jobs)
    /\ CacheKey(jobs[idx + 1]) \notin DOMAIN job_cache
    /\ res' = NoRes
    /\ pc' = "measure"
    /\ UNCHANGED <<jobs_file, cache_file, result_file, jobs, job_cache,
                   found_cached, idx, invoked, init_file, run, prev>>
    /\ UNCHANGED hits

\* mutant of MeasureOk: the cache file is not rewritten after the insert
MeasureOk_Batched ==
    /\ pc = "measure"
    /\ \E r \in MetricsRecords :
          /\ res' = r
          /\ job_cache' = CacheInsert(job_cache, CacheKey(jobs[idx + 1]), r)
    /\ invoked' = Append(invoked, idx)
    /\ pc' = "merge"
    /\ UNCHANGED <<jobs_file, cache_file, result_file, jobs, found_cached, idx,
                   init_file, run, prev>>
    /\ UNCHANGED hits

\* lines 59-61: the analyzer exits 0 and prints a MetricsRecord
MeasureOk ==
    /\ pc = "measure"
    /\ \E r \in MetricsRecords :
          /\ res' = r
          /\ job_cache' = CacheInsert(job_cache, CacheKey(jobs[idx + 1]), r)
    /\ invoked' = Append(invoked, idx)
    /\ pc' = "open"
    /\ UNCHANGED <<jobs_file, cache_file, result_file, jobs, found_cached, idx,
                   init_file, run, prev>>
    /\ UNCHANGED hits

\* mutant of MeasureFail: the failed job is skipped and the batch goes on
MeasureFail_Continues ==
    /\ pc = "measure"
    /\ invoked' = Append(invoked, idx)
    /\ idx' = idx + 1
    /\ pc' = "loop"
    /\ UNCHANGED <<jobs_file, cache_file, result_file, jobs, job_cache,
                   found_cached, res, init_file, run, prev>>
    /\ UNCHANGED hits

\* line 59: check_output raises when the analyzer exits non-zero
MeasureFail ==
    /\ pc = "measure"
    /\ invoked' = Append(invoked, idx)
    /\ pc' = "failed"
    /\ UNCHANGED <<jobs_file, cache_file, result_file, jobs, job_cache,
                   found_cached, idx, res, init_file, run, prev>>
    /\ UNCHANGED hits

\* line 64: open(cache_file, "w") truncates the file
OpenCacheFile ==
    /\ pc = "open"
    /\ cache_file' = Truncated
    /\ pc' = "dump"
    /\ UNCHANGED <<jobs_file, result_file, jobs, job_cache, found_cached, idx,
                   res, invoked, init_file, run, prev>>
    /\ UNCHANGED hits

\* line 65 and the end of the with block: the whole cache is written
DumpCache ==
    /\ pc = "dump"
    /\ cache_file' = JsonFile(job_cache)
    /\ pc' = "merge"
    /\ UNCHANGED <<jobs_file, result_file, jobs, job_cache, found_cached, idx,
                   res, invoked, init_file, run, prev>>
    /\ UNCHANGED hits

\* mutant of Merge: the position advances by two
Merge_SkipsNext ==
    /\ pc = "merge"
    /\ jobs' = [jobs EXCEPT ![idx + 1] = Enrich(@, idx, res)]
    /\ idx' = idx + 2
    /\ pc' = "loop"
    /\ UNCHANGED <<jobs_file, cache_file, result_file, job_cache, found_cached,
                   res, invoked, init_file, run, prev>>
    /\ UNCHANGED hits

\* lines 67-71
Merge ==
    /\ pc = "merge"
    /\ jobs' = [jobs EXCEPT ![idx + 1] = Enrich(@, idx, res)]
    /\ idx' = idx + 1
    /\ pc' = "loop"
    /\ UNCHANGED <<jobs_file, cache_file, result_file, job_cache, found_cached,
                   res, invoked, init_file, run, prev>>
    /\ UNCHANGED hits

\* lines 73-76: the loop is over, the dataset is written
Finish ==
    /\ pc = "loop"
    /\ idx = Len(jobs)
    /\ result_file' = jobs
    /\ pc' = "done"
    /\ UNCHANGED <<jobs_file, cache_file, jobs, job_cache, found_cached, idx,
                   res, invoked, init_file, run, prev>>
    /\ UNCHANGED hits

\* the process is killed; only the files survive
Crash ==
    /\ pc \notin Terminal
    /\ pc' = "crashed"
    /\ UNCHANGED <<jobs_file, cache_file, result_file, jobs, job_cache,
                   found_cached, idx, res, invoked, init_file, run, prev>>
    /\ UNCHANGED hits

\* the script is started again on the same job list and cache file
Restart ==
    /\ pc \in Terminal
    /\ run = 1
    /\ run' = 2
    /\ prev' = [outcome |-> pc, misses |-> Len(invoked), reused |-> found_cached,
                init_file |-> init_file, cache_file |-> cache_file,
                result_file |-> result_file]
    /\ init_file' = cache_file
    /\ jobs' = <<>>
    /\ job_cache' = EmptyCache
    /\ found_cached' = 0
    /\ idx' = 0
    /\ res' = NoRes
    /\ pc' = "load"
    /\ invoked' = <<>>
    /\ hits' = <<>>
    /\ UNCHANGED <<jobs_file, cache_file, result_file>>

Next ==
    \/ LoadCache /\ UNCHANGED <<samplerVars, engineVars>>
    \/ LookupHit /\ UNCHANGED <<samplerVars, engineVars>>
    \/ LookupMiss /\ UNCHANGED <<samplerVars, engineVars>>
    \/ MeasureOk /\ UNCHANGED <<samplerVars, engineVars>>
    \/ MeasureFail /\ UNCHANGED <<samplerVars, engineVars>>
    \/ OpenCacheFile /\ UNCHANGED <<samplerVars, engineVars>>
    \/ DumpCache /\ UNCHANGED <<samplerVars, engineVars>>
    \/ Merge /\ UNCHANGED <<samplerVars, engineVars>>
    \/ Finish /\ UNCHANGED <<samplerVars, engineVars>>
    \/ Crash /\ UNCHANGED <<samplerVars, engineVars>>
    \/ Restart /\ UNCHANGED <<samplerVars, engineVars>>

Spec == Init /\ [][Next]_vars

(***************************************************************************)
(* Properties of execute-jobs.py, checked under Spec                       *)
(***************************************************************************)
\* the 1-based positions of the jobs the engine was run for in this run
MeasuredJobs == { invoked[n] + 1 : n \in 1..Len(invoked) }
\* how often the engine was run for the job at 1-based position i
TimesMeasured(i) == Cardinality({ n \in 1..Len(invoked) : invoked[n] + 1 = i })
\* the jobs merged so far
MergedJobs == IF jobs = <<>> THEN {} ELSE 1..idx
SameInputs(i, j) == Triple(jobs_file[i]) = Triple(jobs_file[j])
KeyOf(i) == CacheKey(jobs_file[i])
Occurrences(s, x) == Cardinality({ n \in 1..Len(s) : s[n] = x })
\* t is a reordering of s that is not s itself
Reordered(s, t) ==
    /\ Len(s) = Len(t)
    /\ s # t
    /\ \A n \in 1..Len(s) : Occurrences(s, s[n]) = Occurrences(t, s[n])
\* the cache this run started from held nothing
StartedEmpty == init_file.kind \in {"absent", "json"} /\ init_file.content = EmptyCache
\* map a includes map b, entry for entry
Includes(a, b) == \A k \in DOMAIN b : k \in DOMAIN a /\ a[k] = b[k]

\* C1: two jobs with the same file, compiler and args are merged with the same
\* MetricsRecord, and the engine is run at most once for the two together.
C1_IdenticalJobsMeasuredOnce ==
    \A i, j \in 1..Len(jobs) :
        (i < j /\ SameInputs(i, j)) =>
            /\ TimesMeasured(i) + TimesMeasured(j) <= 1
            /\ ({i, j} \subseteq MergedJobs => jobs[i].metrics = jobs[j].metrics)

\* C1 witness: a finished run in which a job was measured and a later job
\* with the same inputs was merged.
C1_Witness ==
    /\ pc = "done"
    /\ \E i, j \in 1..Len(jobs) :
          i < j /\ SameInputs(i, j) /\ i \in MeasuredJobs /\ j \in MergedJobs

\* C2: jobs with different (file, compiler, args) have different keys, so a job
\* served from the cache never gets the record measured for other inputs.
C2_KeyIdentifiesInputs ==
    \A i, j \in MergedJobs :
        (i < j /\ i \in MeasuredJobs /\ j \notin MeasuredJobs /\ ~SameInputs(i, j))
            => KeyOf(i) # KeyOf(j)

\* C3: two jobs that differ only in the order of their args have different
\* keys; alone against an empty cache they are both measured and leave two
\* cache entries.
C3_ReorderedArgsMeasuredTwice ==
    ( /\ pc = "done"
      /\ StartedEmpty
      /\ Len(jobs) = 2
      /\ jobs[1].file = jobs[2].file
      /\ jobs[1].compiler = jobs[2].compiler
      /\ Reordered(jobs[1].args, jobs[2].args) )
    => /\ KeyOf(1) # KeyOf(2)
       /\ Len(invoked) = 2
       /\ Cardinality(DOMAIN job_cache) = 2

\* C6: wherever the run is cut off, the cache file still holds what it held
\* at the start and the record of every job measured and merged before.
C6_CrashKeepsEarlierWork ==
    pc \in {"crashed", "failed"} =>
        /\ Includes(cache_file.content, init_file.content)
        /\ \A i \in MeasuredJobs \cap MergedJobs :
              /\ KeyOf(i) \in DOMAIN cache_file.content
              /\ cache_file.content[KeyOf(i)] = jobs[i].metrics

\* C7: at every job boundary the cache file equals the in-memory cache, if the
\* file existed at the start or a miss has occurred.
C7_PersistedAtJobBoundaries ==
    (pc \in {"loop", "done"} /\ (init_file.kind = "json" \/ Len(invoked) >= 1))
        => cache_file = JsonFile(job_cache)

\* C7 witness: a boundary after two misses of a run that found no file.
C7_Witness ==
    /\ pc = "loop"
    /\ init_file.kind = "absent"
    /\ Len(invoked) = 2
    /\ idx < Len(jobs)

\* C8: within a run no step removes a key from the in-memory cache or changes
\* the record stored under it.
C8_CacheGrowsMonotonically ==
    [][run' = run => Includes(job_cache', job_cache)]_vars

\* C8 witness: a loaded entry and an inserted entry side by side, after merges
\* on both the hit and the miss path.
C8_Witness ==
    /\ pc = "done"
    /\ init_file.content # EmptyCache
    /\ Len(invoked) >= 1
    /\ found_cached >= 1
    /\ Cardinality(DOMAIN job_cache) >= 2

\* C9: a finished run with M misses leaves the cache file with its initial
\* content plus exactly M new entries; a second run on the same job list and
\* that file measures nothing, reuses all N jobs and leaves the file alone.
C9_RestartReusesAll ==
    /\ pc = "done" =>
          /\ Includes(cache_file.content, init_file.content)
          /\ Cardinality(DOMAIN cache_file.content \ DOMAIN init_file.content)
                = Len(invoked)
    /\ (run = 2 /\ prev.outcome = "done") =>
          /\ invoked = <<>>
          /\ cache_file = prev.cache_file
          /\ pc # "failed"
          /\ (pc = "done" => found_cached = Len(jobs_file))

\* C9 witness: the second run is over, after a first run with two misses and
\* one hit.
C9_Witness ==
    /\ run = 2
    /\ pc = "done"
    /\ prev.outcome = "done"
    /\ prev.misses = 2
    /\ prev.reused = 1

\* the keys of the job list that the initial cache lacks
NewKeys == { KeyOf(i) : i \in 1..Len(jobs_file) } \ DOMAIN init_file.content

\* C10: in a finished run the engine was run once per distinct key that the
\* initial cache lacked, never for a hit, and the reuse counter is N minus
\* the number of engine runs.
C10_InvocationsAndReuseCount ==
    /\ \A i \in 1..Len(jobs_file) : TimesMeasured(i) <= 1
    /\ pc \in {"loop", "done"} => found_cached + Len(invoked) = idx
    /\ pc = "done" =>
          /\ Len(invoked) = Cardinality(NewKeys)
          /\ found_cached = Len(jobs) - Len(invoked)

\* C10 witness: three jobs, two of them equal and the third with another key,
\* against an empty cache: two engine runs, one reuse.
C10_Witness ==
    /\ pc = "done"
    /\ StartedEmpty
    /\ Len(jobs) = 3
    /\ \E i, j, k \in 1..3 :
          /\ i < j /\ k \notin {i, j}
          /\ SameInputs(i, j)
          /\ KeyOf(k) # KeyOf(i)
    /\ Len(invoked) = 2
    /\ found_cached = 1

\* the 1-based positions of the jobs served from the cache in this run
HitJobs == { hits[n] + 1 : n \in 1..Len(hits) }
\* the jobs whose measurement did not end in a cache entry
FailedJobs == { i \in MeasuredJobs : KeyOf(i) \notin DOMAIN job_cache }

\* C11: when the measurement of job k fails, the run is over: k is measured
\* once, no later job is looked up, measured or merged, nothing is inserted or
\* persisted under k's key, and the output dataset is not written.
C11_FailureIsFatal ==
    \A k \in FailedJobs :
        /\ pc = "failed"
        /\ idx = k - 1
        /\ TimesMeasured(k) = 1
        /\ \A i \in k..Len(jobs) : jobs[i] = jobs_file[i]
        /\ \A i \in (k + 1)..Len(jobs) : i \notin MeasuredJobs \cup HitJobs
        /\ KeyOf(k) \notin DOMAIN cache_file.content
        /\ result_file = prev.result_file

\* C11 witness: the second of three jobs failed after the first was measured.
C11_Witness ==
    /\ pc = "failed"
    /\ Len(jobs) = 3
    /\ invoked = <<0, 1>>
    /\ FailedJobs = {2}

RECURSIVE C18_Spaced(_)
\* the flags with one space between neighbours, built from the right end
C18_Spaced(args) ==
    IF args = <<>> THEN ""
    ELSE IF Len(args) = 1 THEN args[1]
    ELSE C18_Spaced(SubSeq(args, 1, Len(args) - 1)) \o " " \o args[Len(args)]

\* C18: after a finished run the dataset is the job list in input order and
\* length; the job at zero-based position i has id i, argstr the flags joined
\* by single spaces, and the record the cache holds under its key.
C18_DatasetIsEnrichedJobList ==
    pc = "done" =>
        /\ Len(result_file) = Len(jobs_file)
        /\ \A i \in 1..Len(jobs_file) :
              /\ result_file[i].file = jobs_file[i].file
              /\ result_file[i].compiler = jobs_file[i].compiler
              /\ result_file[i].args = jobs_file[i].args
              /\ result_file[i].id = i - 1
              /\ result_file[i].argstr = C18_Spaced(jobs_file[i].args)
              /\ result_file[i].metrics = job_cache[KeyOf(i)]

\* C18 witness: a finished run over three jobs with a hit and a miss.
C18_Witness ==
    /\ pc = "done"
    /\ Len(result_file) = 3
    /\ hits # <<>>
    /\ invoked # <<>>

\* the job has left Pending: it was looked up
LeftPending(i) == i \in MeasuredJobs \cup HitJobs
\* the job is Merged: its record carries id, argstr and metrics
IsMerged(i) == "id" \in DOMAIN jobs[i]

\* where the jobs stand in any state of a run
C19_Order ==
    /\ \A i \in 1..Len(jobs) :
          /\ IsMerged(i) => LeftPending(i)
          /\ LeftPending(i) => \A j \in 1..(i - 1) : IsMerged(j)
          /\ ~(i \in MeasuredJobs /\ i \in HitJobs)
          /\ Occurrences(invoked, i - 1) + Occurrences(hits, i - 1) <= 1
          /\ (IsMerged(i) /\ i \in MeasuredJobs) => KeyOf(i) \in DOMAIN job_cache
    /\ Cardinality({ i \in 1..Len(jobs) : LeftPending(i) /\ ~IsMerged(i) }) <= 1

\* what a step of a run may do to the jobs
C19_Step ==
    run' = run =>
        \A i \in 1..Len(jobs) :
            /\ IsMerged(i) => jobs'[i] = jobs[i]
            /\ LeftPending(i) => (i \in MeasuredJobs' \cup HitJobs')
            /\ (i \in HitJobs) = (i \in HitJobs') \/ ~LeftPending(i)

\* C19: jobs go Pending, then CacheHit or Measuring and Measured, then Merged,
\* strictly in input order, at most one in flight, never on both paths, and a
\* Merged job never changes again.
C19_JobStateMachine == []C19_Order /\ [][C19_Step]_vars

\* C19 witness: the third job is being measured after a hit and a miss.
C19_Witness ==
    /\ pc = "measure"
    /\ idx = 2
    /\ Len(hits) = 1
    /\ Len(invoked) = 1
    /\ IsMerged(1) /\ IsMerged(2)

(***************************************************************************)
(* analyze-file.py: measure_time                                           *)
(***************************************************************************)
\* line 166: if len(ts) > 20: break
SampleCap == 20
\* line 168: if len(ts) >= 8
MinSamples == 8

\* wall-clock durations one execution may take, in microseconds; the ratios
\* 1.005, 1.0149 and 1.02 lie on both sides of the 1.01 threshold
Durations == {1000, 1005, 1020}
\* the four invocations analyze-file.py times, lines 74-79
Invocations == {"preproc_args", "compile_args",
                "preproc_baseline_args", "compile_baseline_args"}

\* what each invocation leaves in -o main.o
Produces(a) ==
    CASE a = "preproc_args" -> "preprocessed target"
      [] a = "compile_args" -> "target object"
      [] a = "preproc_baseline_args" -> "preprocessed baseline"
      [] a = "compile_baseline_args" -> "baseline object"

\* list.sort() on numbers
Sorted(s) == SortSeq(s, LAMBDA a, b : a < b)

\* line 170: ts[3] / ts[0] < 1.01, on the sorted list
Stable(s) == s[4] * 100 < s[1] * 101

\* mutant of ShouldBreak: only the cap ends the loop
ShouldBreak_NoEarlyStop(s) == Len(s) > SampleCap

\* lines 166-171: the two break conditions at the head of the loop
ShouldBreak(s) ==
    \/ Len(s) > SampleCap
    \/ Len(s) >= MinSamples /\ Stable(Sorted(s))

\* ts as the head of the loop leaves it: sorted in place once 8 are in
AtLoopHead(s) == IF Len(s) >= MinSamples THEN Sorted(s) ELSE s

\* lines 172-176: the duration t1 - t0 enters the history
Observe(o, d) ==
    IF d \in DOMAIN o THEN [o EXCEPT ![d] = @ + 1] ELSE (d :> 1) @@ o

\* lines 165-176: one pass of the loop that runs the invocation; the exit
\* status of subprocess.call is dropped. A run that exits 0 has rewritten
\* main.o; a failed run is taken to leave it as it was.
SampleCall(D) ==
    /\ spc = "loop"
    /\ ~ShouldBreak(ts)
    /\ \E d \in D, status \in {0, 1} :
          /\ ts' = Append(AtLoopHead(ts), d)
          /\ observed' = Observe(observed, d)
          /\ nonzero' = (nonzero \/ status # 0)
          /\ output_main' = IF status = 0 THEN Produces(sargs) ELSE output_main
    /\ calls' = calls + 1
    /\ UNCHANGED <<sargs, spc, sample_ret>>

\* mutant of SampleReturn: no sort after the loop
SampleReturn_NoFinalSort ==
    /\ spc = "loop"
    /\ ShouldBreak(ts)
    /\ ts' = ts
    /\ sample_ret' = ts[1]
    /\ spc' = "returned"
    /\ UNCHANGED <<sargs, calls, output_main, nonzero, observed>>

\* lines 166-171 and 177-178: break, sort, return ts[0]
SampleReturn ==
    /\ spc = "loop"
    /\ ShouldBreak(ts)
    /\ ts' = Sorted(ts)
    /\ sample_ret' = Sorted(ts)[1]
    /\ spc' = "returned"
    /\ UNCHANGED <<sargs, calls, output_main, nonzero, observed>>

InitSampler ==
    /\ OrchIdle
    /\ EngineIdle
    /\ sargs \in Invocations
    /\ ts = <<>>
    /\ spc = "loop"
    /\ sample_ret = 0
    /\ calls = 0
    /\ output_main = "none"
    /\ nonzero = FALSE
    /\ observed = <<>>

NextSampler ==
    \/ SampleCall(Durations) /\ UNCHANGED <<orchVars, engineVars>>
    \/ SampleReturn /\ UNCHANGED <<orchVars, engineVars>>

SpecSampler == InitSampler /\ [][NextSampler]_vars

\* C4: whatever the durations, one call of measure_time executes the
\* invocation at most 20 times.
C4_AtMostTwentySamples == calls <= SampleCap

\* how many samples of s are below v, and how many are at most v
C12_Below(s, v) == Cardinality({ i \in DOMAIN s : s[i] < v })
C12_AtMost(s, v) == Cardinality({ i \in DOMAIN s : s[i] <= v })
\* the smallest and the 4th-smallest sample of s
C12_Smallest(s) == CHOOSE v \in { s[i] : i \in DOMAIN s } : C12_Below(s, v) = 0
C12_Fourth(s) ==
    CHOOSE v \in { s[i] : i \in DOMAIN s } :
        C12_Below(s, v) <= 3 /\ C12_AtMost(s, v) >= 4
\* the 4th-smallest sample is less than 1.01 times the smallest
C12_Near(s) == C12_Fourth(s) * 100 < C12_Smallest(s) * 101

\* a step of measure_time
C12_Step ==
    /\ (spc = "loop" /\ spc' = "returned") =>
          (Len(ts') >= 8 /\ calls' >= 8 /\ calls' = calls)
    /\ (spc = "loop" /\ Len(ts) >= 8 /\ C12_Near(ts)) =>
          (spc' = "returned" /\ calls' = calls)
    /\ (spc = "loop" /\ Len(ts) = 8 /\ C12_Near(ts)) => calls' = 8

\* C12: measure_time never returns with fewer than 8 samples; at the first
\* point where it has at least 8 and the 4th-smallest is below 1.01 times the
\* smallest it stops without another execution, so 8 near-identical samples
\* mean exactly 8 executions.
C12_EarlyStop == [][C12_Step]_vars

\* C12 witness: returned after exactly 8 executions of unequal durations.
C12_Witness ==
    /\ spc = "returned"
    /\ calls = 8
    /\ ts[1] # ts[4]

\* the samples of s, counted by value
C13_Counted(s) ==
    [d \in { s[i] : i \in DOMAIN s } |->
        Cardinality({ i \in DOMAIN s : s[i] = d })]

\* C13: the list always holds exactly the durations measured so far, and the
\* value returned is the smallest of them, whether the loop ended early or at
\* the cap.
C13_ReturnsMinimum ==
    /\ spc # "idle" => C13_Counted(ts) = observed
    /\ spc = "returned" =>
          /\ sample_ret \in DOMAIN observed
          /\ \A d \in DOMAIN observed : sample_ret <= d

\* C13 witness: returned at the cap, three different durations measured.
C13_Witness ==
    /\ spc = "returned"
    /\ calls = SampleCap + 1
    /\ Cardinality(DOMAIN observed) = 3
    /\ sample_ret = 1000

(***************************************************************************)
(* analyze-file.py: the script                                             *)
(***************************************************************************)
Digits == {"0", "1", "2", "3", "4", "5", "6", "7", "8", "9"}
Letters == {"a", "b", "c", "d", "e", "f", "g", "h", "i", "j", "k", "l", "m",
            "n", "o", "p", "q", "r", "s", "t", "u", "v", "w", "x", "y", "z",
            "A", "B", "C", "D", "E", "F", "G", "H", "I", "J", "K", "L", "M",
            "N", "O", "P", "Q", "R", "S", "T", "U", "V", "W", "X", "Y", "Z"}
\* [0-9a-zA-Z]
AlnumChars == Digits \cup Letters
\* [a-zA-Z0-9_] and \w on ASCII text
WordChars == AlnumChars \cup {"_"}

\* Text is a sequence of one-character strings.
\* str.startswith
StartsWith(text, prefix) ==
    /\ Len(text) >= Len(prefix)
    /\ SubSeq(text, 1, Len(prefix)) = prefix

\* lines 48-50, on ext = os.path.splitext(file)[-1]
is_source(ext) == StartsWith(ext, <<".", "c">>)
is_header(ext) == StartsWith(ext, <<".", "h">>)
is_system(ext) == ext = <<>>

\* mutant of FirstFailedAssert: the scratch directory is not looked at
FirstFailedAssert_NoTmpCheck(in) ==
    IF ~in.compiler_abs THEN "compiler path must be absolute"
    ELSE IF ~in.compiler_exists THEN "cannot find compiler"
    ELSE IF ~(is_source(in.ext) \/ is_header(in.ext) \/ is_system(in.ext))
        THEN "unknown extension"
    ELSE "none"

\* lines 42, 44, 54, 58: the four asserts, in order
FirstFailedAssert(in) ==
    IF ~in.compiler_abs THEN "compiler path must be absolute"
    ELSE IF ~in.compiler_exists THEN "cannot find compiler"
    ELSE IF ~(is_source(in.ext) \/ is_header(in.ext) \/ is_system(in.ext))
        THEN "unknown extension"
    ELSE IF ~in.tmp_exists THEN "tmp dir does not exist"
    ELSE "none"

\* line 110: prog.search(l) is not None
HasWordChar(line) == \E i \in 1..Len(line) : line[i] \in WordChars

RECURSIVE CountWordLines(_)
\* lines 104-111: line_cnt
CountWordLines(lines) ==
    IF lines = <<>> THEN 0
    ELSE (IF HasWordChar(Head(lines)) THEN 1 ELSE 0) + CountWordLines(Tail(lines))

\* mutant of LineCount: both wrapper lines are taken off
LineCount_MinusTwo(lines) == CountWordLines(lines) - 2

\* line 112
LineCountRaw(lines) == Len(lines) - 2
\* line 113
LineCount(lines) == CountWordLines(lines) - 1

RECURSIVE PrefixLen(_, _)
\* the length of the longest prefix of text made of characters of class
PrefixLen(text, class) ==
    IF text = <<>> \/ Head(text) \notin class THEN 0
    ELSE 1 + PrefixLen(Tail(text), class)

\* mutant of ParseSymbolLine: the name starts at the separating space
ParseSymbolLine_NameWithSpace(l) ==
    LET a == PrefixLen(l, AlnumChars)
        b == PrefixLen(SubSeq(l, a + 1, Len(l)), {" "})
        t == a + b + 1
    IN  IF /\ b >= 1
           /\ Len(l) >= t + 2
           /\ l[t] \in WordChars
           /\ l[t + 1] = " "
        THEN [ok |-> TRUE, st |-> l[t], sn |-> SubSeq(l, t + 1, Len(l))]
        ELSE [ok |-> FALSE, st |-> "", sn |-> <<>>]

\* line 121 and 130: prog.match(l) for ^[0-9a-zA-Z]* +(\w) (.+)$
\* The two runs cannot be shortened: the character after the first must be a
\* space and the character after the second a word character.
ParseSymbolLine(l) ==
    LET a == PrefixLen(l, AlnumChars)
        b == PrefixLen(SubSeq(l, a + 1, Len(l)), {" "})
        t == a + b + 1
    IN  IF /\ b >= 1
           /\ Len(l) >= t + 2
           /\ l[t] \in WordChars
           /\ l[t + 1] = " "
        THEN [ok |-> TRUE, st |-> l[t], sn |-> SubSeq(l, t + 2, Len(l))]
        ELSE [ok |-> FALSE, st |-> "", sn |-> <<>>]

NoSymbols == [ok |-> TRUE,
              undef_sym_cnt |-> 0, undef_sym_size |-> 0,
              data_sym_cnt |-> 0, data_sym_size |-> 0,
              code_sym_cnt |-> 0, code_sym_size |-> 0]

\* mutant of ClassifyLine: a line of unknown type is skipped
ClassifyLine_SkipsUnknown(acc, l) ==
    LET m == ParseSymbolLine(l)
    IN  IF ~acc.ok THEN acc
        ELSE IF ~m.ok THEN [acc EXCEPT !.ok = FALSE]
        ELSE IF m.st \in {"u", "U"}
            THEN [acc EXCEPT !.undef_sym_cnt = @ + 1,
                             !.undef_sym_size = @ + Len(m.sn)]
        ELSE IF m.st \in {"b", "B", "r", "R", "d", "D"}
            THEN [acc EXCEPT !.data_sym_cnt = @ + 1,
                             !.data_sym_size = @ + Len(m.sn)]
        ELSE IF m.st \in {"t", "T"}
            THEN [acc EXCEPT !.code_sym_cnt = @ + 1,
                             !.code_sym_size = @ + Len(m.sn)]
        ELSE acc

\* lines 130-145: the body of the loop for one line
ClassifyLine(acc, l) ==
    LET m == ParseSymbolLine(l)
    IN  IF ~acc.ok THEN acc
        ELSE IF ~m.ok THEN [acc EXCEPT !.ok = FALSE]
        ELSE IF m.st \in {"u", "U"}
            THEN [acc EXCEPT !.undef_sym_cnt = @ + 1,
                             !.undef_sym_size = @ + Len(m.sn)]
        ELSE IF m.st \in {"b", "B", "r", "R", "d", "D"}
            THEN [acc EXCEPT !.data_sym_cnt = @ + 1,
                             !.data_sym_size = @ + Len(m.sn)]
        ELSE IF m.st \in {"t", "T"}
            THEN [acc EXCEPT !.code_sym_cnt = @ + 1,
                             !.code_sym_size = @ + Len(m.sn)]
        ELSE [acc EXCEPT !.ok = FALSE]

RECURSIVE ClassifySymbols(_, _)
\* lines 122-145: the loop over the lines nm printed
ClassifySymbols(acc, lines) ==
    IF lines = <<>> THEN acc
    ELSE ClassifySymbols(ClassifyLine(acc, Head(lines)), Tail(lines))

\* os.path.getsize(output_main): the size of what main.o holds
FileSize(held) ==
    CASE held = "target object" -> 2400
      [] held = "baseline object" -> 1200
      [] held = "preprocessed target" -> 300
      [] held = "preprocessed baseline" -> 30
      [] OTHER -> 0

\* result[k] = v
Store(r, k, v) == (k :> v) @@ r

\* lines 181-184: the four timings, in order
TimingPlan == <<
    [key |-> "preprocessing_time", sargs |-> "preproc_args"],
    [key |-> "compile_time", sargs |-> "compile_args"],
    [key |-> "preprocessing_time_base", sargs |-> "preproc_baseline_args"],
    [key |-> "compile_time_base", sargs |-> "compile_baseline_args"] >>

\* ---- inputs
ExtSource == <<".", "c", "c">>
ExtHeader == <<".", "h">>
ExtSystem == <<>>
ExtOther == <<".", "t", "x", "t">>
ExtObject == <<".", "o">>
ExtUpper == <<".", "C">>
EngineInputs == [compiler_abs : BOOLEAN, compiler_exists : BOOLEAN,
                 ext : {ExtSource, ExtHeader, ExtSystem, ExtOther,
                        ExtObject, ExtUpper},
                 tmp_exists : BOOLEAN]

\* what the preprocessor may write for main.cc
PreprocOutputs == {
    << <<"#", " ", "1">>, <<>>, <<"i", "n", "t", " ", "x", ";">>, <<"}", ";">>,
       <<"i", "n", "t", " ", "m", "a", "i", "n", "(", ")">> >>,
    << <<"#", " ", "1">>,
       <<"i", "n", "t", " ", "m", "a", "i", "n", "(", ")">> >> }

\* one symbol as nm prints it: address or blanks, blanks, type, blank, name
SymbolEntry(addr, pad, st, sn) == [addr |-> addr, pad |-> pad, st |-> st, sn |-> sn]
\* the line nm prints for a symbol
Render(e) == e.addr \o e.pad \o <<e.st, " ">> \o e.sn
Addr0 == <<"0", "0", "0", "0">>
Addr4 == <<"0", "0", "0", "4">>
Blank == <<" ">>
\* symbols of every type the script knows, and of three it does not
SymbolEntries == {
    SymbolEntry(Addr0, Blank, "T", <<"m", "a", "i", "n">>),
    SymbolEntry(Addr4, Blank, "D", <<"b", "a", "r">>),
    SymbolEntry(<<>>, <<" ", " ", " ", " ", " ">>, "U", <<"_", "Z", "3", "b", "a", "z">>),
    SymbolEntry(<<>>, Blank, "u", <<"w">>),
    SymbolEntry(Addr0, Blank, "t", <<"f">>),
    SymbolEntry(Addr4, Blank, "b", <<"b", "1">>),
    SymbolEntry(Addr0, Blank, "B", <<"b", "u", "f">>),
    SymbolEntry(Addr4, <<" ", " ">>, "r", <<"r">>),
    SymbolEntry(Addr0, Blank, "R", <<"r", "o">>),
    SymbolEntry(Addr4, Blank, "d", <<"x">>),
    SymbolEntry(Addr0, Blank, "T", <<"U", " ", "x">>),
    SymbolEntry(Addr0, Blank, "X", <<"q", "u", "x">>),
    SymbolEntry(Addr0, Blank, "_", <<"y">>),
    SymbolEntry(Addr0, Blank, "1", <<"z">>) }
\* lines nm may print that are no symbol: a file header, an empty line, a
\* symbol without a name
MalformedLines == { <<"m", "a", "i", "n", ".", "o", ":">>,
                    <<>>,
                    <<"0", "0", "0", "0", " ", "T">> }

\* what nm may print for main.o
NmOutputs == {
    << <<"0", "0", "0", "0", " ", "T", " ", "m", "a", "i", "n">>,
       <<"0", "0", "0", "4", " ", "D", " ", "b", "a", "r">>,
       <<" ", " ", " ", " ", " ", "U", " ", "_", "Z", "3", "b", "a", "z">> >>,
    << <<"0", "0", "0", "0", " ", "T", " ", "m", "a", "i", "n">>,
       <<"0", "0", "0", "0", " ", "X", " ", "q", "u", "x">> >>,
    << <<"m", "a", "i", "n", ".", "o", ":">>,
       <<"0", "0", "0", "0", " ", "T", " ", "m", "a", "i", "n">> >>,
    << <<"0", "0", "0", "0", " ", "_", " ", "y">>,
       <<"0", "0", "0", "4", " ", "D", " ", "b", "a", "r">> >>,
    << <<"0", "0", "0", "0", " ", "T", " ", "m", "a", "i", "n">>,
       <<>>,
       <<"0", "0", "0", "4", " ", "D", " ", "b", "a", "r">> >>,
    << <<"0", "0", "0", "0", " ", "T">> >> }

\* durations seen inside a whole run of the script
EngineDurations == {1000, 1020}

InitEngine ==
    /\ OrchIdle
    /\ SamplerIdle
    /\ einput \in EngineInputs
    /\ epc = "validate"
    /\ tus_written = FALSE
    /\ pp_out = <<>>
    /\ nm_out = <<>>
    /\ result = <<>>
    /\ timed = 0
    /\ error = "none"
    /\ stdout = <<>>
    /\ ext_calls = <<>>

\* lines 40-59: the asserts on the arguments
Validate ==
    /\ epc = "validate"
    /\ IF FirstFailedAssert(einput) = "none"
       THEN epc' = "setup" /\ error' = error
       ELSE epc' = "failed" /\ error' = "InvalidInputError"
    /\ UNCHANGED <<einput, tus_written, pp_out, nm_out, result, timed, stdout, ext_calls>>
    /\ UNCHANGED samplerVars

\* lines 85-94: write main.cc and baseline.cc
WriteTranslationUnits ==
    /\ epc = "setup"
    /\ tus_written' = TRUE
    /\ epc' = "preproc"
    /\ UNCHANGED <<einput, pp_out, nm_out, result, timed, error, stdout, ext_calls>>
    /\ UNCHANGED samplerVars

\* subprocess.run(..., check=True) and check_output: a non-zero exit raises
Checked(name, status, held, next) ==
    /\ ext_calls' = Append(ext_calls, name)
    /\ IF status = 0
       THEN /\ output_main' = held
            /\ epc' = next
            /\ UNCHANGED <<error, nonzero>>
       ELSE /\ epc' = "failed"
            /\ error' = "ToolchainError"
            /\ nonzero' = TRUE
            /\ UNCHANGED output_main

\* line 102: preprocess main.cc
Preprocess ==
    /\ epc = "preproc"
    /\ \E status \in {0, 1}, out \in PreprocOutputs :
          /\ Checked("preproc_args", status, Produces("preproc_args"), "count")
          /\ pp_out' = IF status = 0 THEN out ELSE pp_out
    /\ UNCHANGED <<einput, tus_written, nm_out, result, timed, stdout>>
    /\ UNCHANGED <<sargs, ts, spc, sample_ret, calls, observed>>

\* mutant of CountLines: the target compile is skipped
CountLines_SkipsCompile ==
    /\ epc = "count"
    /\ result' = Store(Store(result, "line_count_raw", LineCountRaw(pp_out)),
                       "line_count", LineCount(pp_out))
    /\ epc' = "size"
    /\ UNCHANGED <<einput, tus_written, pp_out, nm_out, timed, error, stdout, ext_calls>>
    /\ UNCHANGED samplerVars

\* lines 103-113: count the lines of main.o
CountLines ==
    /\ epc = "count"
    /\ result' = Store(Store(result, "line_count_raw", LineCountRaw(pp_out)),
                       "line_count", LineCount(pp_out))
    /\ epc' = "compile"
    /\ UNCHANGED <<einput, tus_written, pp_out, nm_out, timed, error, stdout, ext_calls>>
    /\ UNCHANGED samplerVars

\* line 117: compile main.cc
Compile ==
    /\ epc = "compile"
    /\ \E status \in {0, 1} :
          Checked("compile_args", status, Produces("compile_args"), "size")
    /\ UNCHANGED <<einput, tus_written, pp_out, nm_out, result, timed, stdout>>
    /\ UNCHANGED <<sargs, ts, spc, sample_ret, calls, observed>>

\* line 118
ReadObjectSize ==
    /\ epc = "size"
    /\ result' = Store(result, "object_size", FileSize(output_main))
    /\ epc' = "nm"
    /\ UNCHANGED <<einput, tus_written, pp_out, nm_out, timed, error, stdout, ext_calls>>
    /\ UNCHANGED samplerVars

\* the six counters of lines 147-152
StoreSymbols(r, c) ==
    Store(Store(Store(Store(Store(Store(r,
        "undefined_symbol_count", c.undef_sym_cnt),
        "undefined_symbol_size", c.undef_sym_size),
        "data_symbol_count", c.data_sym_cnt),
        "data_symbol_size", c.data_sym_size),
        "code_symbol_count", c.code_sym_cnt),
        "code_symbol_size", c.code_sym_size)

\* lines 128-152: run nm on main.o and classify every line it printed
SymbolDumpFrom(Outs) ==
    /\ epc = "nm"
    /\ \E status \in {0, 1}, out \in Outs :
          LET c == ClassifySymbols(NoSymbols, out)
          IN  /\ ext_calls' = Append(ext_calls, "nm")
              /\ nm_out' = IF status = 0 THEN out ELSE nm_out
              /\ CASE status # 0 ->
                        /\ epc' = "failed"
                        /\ error' = "ToolchainError"
                        /\ nonzero' = TRUE
                        /\ UNCHANGED result
                   [] status = 0 /\ ~c.ok ->
                        /\ epc' = "failed"
                        /\ error' = "ParseError"
                        /\ UNCHANGED <<result, nonzero>>
                   [] OTHER ->
                        /\ epc' = "baseline"
                        /\ result' = StoreSymbols(result, c)
                        /\ UNCHANGED <<error, nonzero>>
    /\ UNCHANGED <<einput, tus_written, pp_out, timed, stdout>>
    /\ UNCHANGED <<sargs, ts, spc, sample_ret, calls, output_main, observed>>

\* lines 128-152 inside a whole run of the script
SymbolDump == SymbolDumpFrom(NmOutputs)

\* line 156: compile baseline.cc
BaselineCompile ==
    /\ epc = "baseline"
    /\ \E status \in {0, 1} :
          Checked("compile_baseline_args", status,
                  Produces("compile_baseline_args"), "size_base")
    /\ UNCHANGED <<einput, tus_written, pp_out, nm_out, result, timed, stdout>>
    /\ UNCHANGED <<sargs, ts, spc, sample_ret, calls, observed>>

\* line 157
ReadBaselineSize ==
    /\ epc = "size_base"
    /\ result' = Store(result, "object_size_base", FileSize(output_main))
    /\ epc' = "timing"
    /\ UNCHANGED <<einput, tus_written, pp_out, nm_out, timed, error, stdout, ext_calls>>
    /\ UNCHANGED samplerVars

\* lines 181-184 and 164: measure_time is entered for the next timing
MeasureTimeEnter ==
    /\ epc = "timing"
    /\ spc = "idle"
    /\ sargs' = TimingPlan[timed + 1].sargs
    /\ ts' = <<>>
    /\ calls' = 0
    /\ observed' = <<>>
    /\ spc' = "loop"
    /\ UNCHANGED <<sample_ret, output_main, nonzero>>
    /\ UNCHANGED engineVars

\* lines 181-184: the returned value is stored
MeasureTimeStore ==
    /\ epc = "timing"
    /\ spc = "returned"
    /\ result' = Store(result, TimingPlan[timed + 1].key, sample_ret)
    /\ timed' = timed + 1
    /\ spc' = "idle"
    /\ epc' = IF timed + 1 = Len(TimingPlan) THEN "print" ELSE "timing"
    /\ UNCHANGED <<sargs, ts, sample_ret, calls, output_main, nonzero, observed>>
    /\ UNCHANGED <<einput, tus_written, pp_out, nm_out, error, stdout, ext_calls>>

\* line 193: the result is printed and the script exits 0
PrintResult ==
    /\ epc = "print"
    /\ stdout' = result
    /\ epc' = "done"
    /\ UNCHANGED <<einput, tus_written, pp_out, nm_out, result, timed, error, ext_calls>>
    /\ UNCHANGED samplerVars

NextEngine ==
    \/ Validate /\ UNCHANGED orchVars
    \/ WriteTranslationUnits /\ UNCHANGED orchVars
    \/ Preprocess /\ UNCHANGED orchVars
    \/ CountLines /\ UNCHANGED orchVars
    \/ Compile /\ UNCHANGED orchVars
    \/ ReadObjectSize /\ UNCHANGED orchVars
    \/ SymbolDump /\ UNCHANGED orchVars
    \/ BaselineCompile /\ UNCHANGED orchVars
    \/ ReadBaselineSize /\ UNCHANGED orchVars
    \/ MeasureTimeEnter /\ UNCHANGED orchVars
    \/ SampleCall(EngineDurations) /\ UNCHANGED <<orchVars, engineVars>>
    \/ SampleReturn /\ UNCHANGED <<orchVars, engineVars>>
    \/ MeasureTimeStore /\ UNCHANGED orchVars
    \/ PrintResult /\ UNCHANGED orchVars

SpecEngine == InitEngine /\ [][NextEngine]_vars

\* C5: when any external invocation exited non-zero (a checked run or a timed
\* sample), the script does not finish and prints no MetricsRecord.
C5_NonZeroExitFailsMeasurement ==
    nonzero => (epc # "done" /\ stdout = <<>>)

(***************************************************************************)
(* analyze-file.py: line counting on its own                               *)
(***************************************************************************)
\* how many lines the included file may contribute
MaxLines == 4

\* all sequences over S of length at most n
SeqsUpTo(S, n) == UNION { [1..k -> S] : k \in 0..n }

\* the kinds of line a preprocessor writes: blank, line marker, declaration,
\* punctuation only, a lone underscore
LineKinds == { <<>>,
               <<"#", " ", "1">>,
               <<"i", "n", "t", " ", "x", ";">>,
               <<"}", ";">>,
               <<"_">> }
\* line 88: the wrapper's own line after preprocessing
MainLine == <<"i", "n", "t", " ", "m", "a", "i", "n", "(", ")">>
\* main.o after line 102: what the include expands to, then the wrapper's line
LineInputs == { Append(body, MainLine) : body \in SeqsUpTo(LineKinds, MaxLines) }

\* the script has just preprocessed main.cc
InitLines ==
    /\ OrchIdle
    /\ sargs = "none"
    /\ ts = <<>>
    /\ spc = "idle"
    /\ sample_ret = 0
    /\ calls = 0
    /\ output_main = Produces("preproc_args")
    /\ nonzero = FALSE
    /\ observed = <<>>
    /\ einput = [compiler_abs |-> TRUE, compiler_exists |-> TRUE,
                 ext |-> ExtHeader, tmp_exists |-> TRUE]
    /\ epc = "count"
    /\ tus_written = TRUE
    /\ pp_out \in LineInputs
    /\ nm_out = <<>>
    /\ result = <<>>
    /\ timed = 0
    /\ error = "none"
    /\ stdout = <<>>
    /\ ext_calls = <<"preproc_args">>

NextLines == CountLines /\ UNCHANGED orchVars

SpecLines == InitLines /\ [][NextLines]_vars

\* the lines with at least one letter, digit or underscore
C14_WordLines(lines) ==
    Cardinality({ i \in DOMAIN lines :
        \E k \in DOMAIN lines[i] :
            lines[i][k] \in AlnumChars \/ lines[i][k] = "_" })

\* C14 as stated: both counts are the counted lines minus 2.
C14_BothCountsMinusTwo ==
    "line_count" \in DOMAIN result =>
        /\ result["line_count_raw"] = Len(pp_out) - 2
        /\ result["line_count"] = C14_WordLines(pp_out) - 2

\* C14 as the code has it: line_count_raw is the number of preprocessed lines
\* minus 2, line_count is the number of lines with a letter, digit or
\* underscore minus 1.
C14_RawMinusTwoWordsMinusOne ==
    "line_count" \in DOMAIN result =>
        /\ result["line_count_raw"] = Len(pp_out) - 2
        /\ result["line_count"] = C14_WordLines(pp_out) - 1

\* C14 witness: a blank line, a declaration, a closing brace and the wrapper.
C14_Witness ==
    /\ "line_count" \in DOMAIN result
    /\ Len(pp_out) = 4
    /\ result["line_count_raw"] = 2
    /\ result["line_count"] = 1
    /\ \E i \in DOMAIN pp_out : pp_out[i] = <<>>

(***************************************************************************)
(* analyze-file.py: symbol classification on its own                       *)
(***************************************************************************)
\* how many lines nm may print
MaxSymbols == 3

\* every line nm may print
SymbolLines == { Render(e) : e \in SymbolEntries } \cup MalformedLines
SymbolOutputs == SeqsUpTo(SymbolLines, MaxSymbols)

\* the script has just read the size of the target object
InitSymbols ==
    /\ OrchIdle
    /\ sargs = "none"
    /\ ts = <<>>
    /\ spc = "idle"
    /\ sample_ret = 0
    /\ calls = 0
    /\ output_main = Produces("compile_args")
    /\ nonzero = FALSE
    /\ observed = <<>>
    /\ einput = [compiler_abs |-> TRUE, compiler_exists |-> TRUE,
                 ext |-> ExtHeader, tmp_exists |-> TRUE]
    /\ epc = "nm"
    /\ tus_written = TRUE
    /\ pp_out \in PreprocOutputs
    /\ nm_out = <<>>
    /\ result = Store(Store(Store(<<>>,
                    "line_count_raw", LineCountRaw(pp_out)),
                    "line_count", LineCount(pp_out)),
                    "object_size", FileSize(Produces("compile_args")))
    /\ timed = 0
    /\ error = "none"
    /\ stdout = <<>>
    /\ ext_calls = <<"preproc_args", "compile_args">>

NextSymbols ==
    \/ SymbolDumpFrom(SymbolOutputs) /\ UNCHANGED orchVars
    \/ BaselineCompile /\ UNCHANGED orchVars
    \/ ReadBaselineSize /\ UNCHANGED orchVars

SpecSymbols == InitSymbols /\ [][NextSymbols]_vars

\* the three classes of symbol type
UndefinedTypes == {"u", "U"}
DataTypes == {"b", "B", "r", "R", "d", "D"}
CodeTypes == {"t", "T"}
\* the line is a symbol of one of the three classes
KnownSymbolLine(l) ==
    \E e \in SymbolEntries :
        Render(e) = l /\ e.st \in UndefinedTypes \cup DataTypes \cup CodeTypes
\* the symbol a line was printed for
EntryOf(l) == CHOOSE e \in SymbolEntries : Render(e) = l
\* the positions of the lines of a class
LinesOf(out, class) == { i \in DOMAIN out : EntryOf(out[i]).st \in class }

RECURSIVE NameLengths(_, _)
\* the sum of the name lengths of the lines at the positions in at
NameLengths(out, at) ==
    IF at = {} THEN 0
    ELSE LET i == CHOOSE x \in at : TRUE
         IN  Len(EntryOf(out[i]).sn) + NameLengths(out, at \ {i})

\* nm was run and exited 0
SymbolsDumped ==
    /\ Len(ext_calls) >= 3
    /\ ext_calls[3] = "nm"
    /\ ~(Len(ext_calls) = 3 /\ error = "ToolchainError")

\* C15: when every line nm printed is a well-formed symbol of type u, U, b, B,
\* r, R, d, D, t or T, each line is counted in exactly one class: the three
\* counts are the numbers of lines of the three classes and sum to the number
\* of lines, and each size is the sum of the name lengths of its class.
C15_ClassificationIsPartition ==
    (SymbolsDumped /\ \A i \in DOMAIN nm_out : KnownSymbolLine(nm_out[i])) =>
        /\ error # "ParseError"
        /\ result["undefined_symbol_count"]
             = Cardinality(LinesOf(nm_out, UndefinedTypes))
        /\ result["data_symbol_count"] = Cardinality(LinesOf(nm_out, DataTypes))
        /\ result["code_symbol_count"] = Cardinality(LinesOf(nm_out, CodeTypes))
        /\ result["undefined_symbol_count"] + result["data_symbol_count"]
             + result["code_symbol_count"] = Len(nm_out)
        /\ result["undefined_symbol_size"]
             = NameLengths(nm_out, LinesOf(nm_out, UndefinedTypes))
        /\ result["data_symbol_size"]
             = NameLengths(nm_out, LinesOf(nm_out, DataTypes))
        /\ result["code_symbol_size"]
             = NameLengths(nm_out, LinesOf(nm_out, CodeTypes))

\* C15 witness: one symbol of each class, the code symbol's name has a blank.
C15_Witness ==
    /\ SymbolsDumped
    /\ Len(nm_out) = 3
    /\ \A i \in DOMAIN nm_out : KnownSymbolLine(nm_out[i])
    /\ result["undefined_symbol_count"] = 1
    /\ result["data_symbol_count"] = 1
    /\ result["code_symbol_count"] = 1
    /\ \E i \in DOMAIN nm_out : EntryOf(nm_out[i]).sn = <<"U", " ", "x">>
    /\ result["code_symbol_size"] = 3

\* what the script stores after the symbol dump
AfterSymbolDump ==
    {"undefined_symbol_count", "undefined_symbol_size", "data_symbol_count",
     "data_symbol_size", "code_symbol_count", "code_symbol_size",
     "object_size_base", "preprocessing_time", "compile_time",
     "preprocessing_time_base", "compile_time_base"}

\* C16: when nm printed a line that is no symbol of the three classes, the
\* script fails with a ParseError: nothing is printed, the symbol dump is the
\* last external invocation, no baseline compile and no timing follows; and a
\* ParseError comes from such a line only.
C16_ParseFailureStopsMeasurement ==
    /\ (\E i \in DOMAIN nm_out : ~KnownSymbolLine(nm_out[i])) =>
          /\ epc = "failed"
          /\ error = "ParseError"
          /\ stdout = <<>>
          /\ ext_calls = <<"preproc_args", "compile_args", "nm">>
          /\ DOMAIN result \cap AfterSymbolDump = {}
          /\ timed = 0
          /\ calls = 0
          /\ spc = "idle"
    /\ error = "ParseError" =>
          \E i \in DOMAIN nm_out : ~KnownSymbolLine(nm_out[i])

\* C16 witness: an empty line between two good symbols ended the run.
C16_Witness ==
    /\ error = "ParseError"
    /\ Len(nm_out) = 3
    /\ KnownSymbolLine(nm_out[1])
    /\ ~KnownSymbolLine(nm_out[2])
    /\ KnownSymbolLine(nm_out[3])

\* the extension is neither empty nor one that begins with .c or .h
C17_BadExt(e) ==
    /\ e # <<>>
    /\ ~(Len(e) >= 2 /\ e[1] = "." /\ e[2] \in {"c", "h"})
\* the inputs the script must reject
C17_Invalid(in) ==
    \/ ~in.compiler_abs
    \/ ~in.compiler_exists
    \/ C17_BadExt(in.ext)
    \/ ~in.tmp_exists

\* C17: invalid inputs get no further than the checks: the script fails with
\* an InvalidInputError, and then no translation unit has been written, no
\* external program run and nothing measured; that error comes from invalid
\* inputs only.
C17_InvalidInputsRejectedFirst ==
    /\ C17_Invalid(einput) =>
          /\ epc \in {"validate", "failed"}
          /\ epc = "failed" => error = "InvalidInputError"
          /\ ~tus_written
          /\ ext_calls = <<>>
          /\ calls = 0
          /\ spc = "idle"
          /\ result = <<>>
          /\ stdout = <<>>
    /\ error = "InvalidInputError" =>
          /\ C17_Invalid(einput)
          /\ ~tus_written
          /\ ext_calls = <<>>
          /\ calls = 0

\* C17 witness: only the scratch directory is missing, and the run has failed.
C17_Witness ==
    /\ epc = "failed"
    /\ error = "InvalidInputError"
    /\ einput.compiler_abs
    /\ einput.compiler_exists
    /\ einput.ext = ExtSource
    /\ ~einput.tmp_exists

\* the ten readings the script takes from main.o and nm
Readings ==
    {"line_count_raw", "line_count", "object_size",
     "undefined_symbol_count", "undefined_symbol_size", "data_symbol_count",
     "data_symbol_size", "code_symbol_count", "code_symbol_size",
     "object_size_base"}

\* C20: every invocation writes main.o, so each reading finds there what the
\* step before it left: the preprocessed target when the lines are counted,
\* the target object when object_size is read and nm runs, the baseline object
\* when object_size_base is read; the values stored are the sizes of those
\* objects; and no timing sample runs before all ten readings are stored.
C20_SharedOutputOrder ==
    /\ epc = "count" => output_main = "preprocessed target"
    /\ epc \in {"size", "nm"} => output_main = "target object"
    /\ epc = "size_base" => output_main = "baseline object"
    /\ "object_size" \in DOMAIN result =>
          result["object_size"] = FileSize("target object")
    /\ "object_size_base" \in DOMAIN result =>
          result["object_size_base"] = FileSize("baseline object")
    /\ (spc # "idle" \/ calls > 0 \/ timed > 0) => Readings \subseteq DOMAIN result
    /\ (\E i \in DOMAIN ext_calls : ext_calls[i] = "nm") =>
          (Len(ext_calls) >= 3 /\ ext_calls[2] = "compile_args"
           /\ ext_calls[3] = "nm")

\* C20 witness: a timing sample has overwritten main.o after all readings.
C20_Witness ==
    /\ spc = "loop"
    /\ calls > 0
    /\ sargs = "preproc_args"
    /\ output_main = "preprocessed target"
    /\ Readings \subseteq DOMAIN result
    /\ result["object_size"] = 2400
    /\ result["object_size_base"] = 1200

====
